---- MODULE Spec2Model ----
(***************************************************************************)
(* Model of the rate engine of the crvUSD monetary policy simulator:       *)
(* AggMonetaryPolicy3.exp and AggMonetaryPolicy3.calculate_rate            *)
(* (src/src/policies/agg_monetary_policy3.py), driven by the parameter     *)
(* changes and sweeps of src/main.py.                                      *)
(*                                                                         *)
(* Python integers are unbounded and the quantities are scaled by 10^18,   *)
(* so integers are modelled exactly as little-endian sequences of base-    *)
(* 10^4 limbs (TLC's own integers are 32 bits wide).  The value returned   *)
(* by exp on its middle branch is an IEEE-754 double, and it makes the     *)
(* later products and floor divisions double arithmetic too; doubles are   *)
(* modelled exactly as mantissa * 2^exponent with round-to-nearest-even.   *)
(***************************************************************************)
EXTENDS Integers, Sequences, FiniteSets, TLC

(***************************************************************************)
(* Natural numbers of arbitrary size: <<l1, ..., ln>> is                   *)
(* l1 + l2*BASE + ... + ln*BASE^(n-1), with ln # 0; zero is <<>>.          *)
(* Carries are found by look-ahead rather than by a loop over the limbs,   *)
(* which keeps the evaluation shallow.  For the same reason an operator    *)
(* that loops tests Len(v) < 0 of an operand v it is about to pass on: the *)
(* test is never true, and it makes TLC compute v there and then.          *)
(***************************************************************************)
BASE == 10^4

\* a decimal literal written in groups of four digits, most significant first
Dec(groups) == [i \in 1..Len(groups) |-> groups[Len(groups) + 1 - i]]

Max(S) == CHOOSE m \in S : \A x \in S : x <= m
NLimb(a, i) == IF i <= Len(a) THEN a[i] ELSE 0
\* a sequence of limbs without its high zero limbs
NTrim(a) == IF a = <<>> THEN a
            ELSE IF a[Len(a)] # 0 THEN a
            ELSE IF \A i \in 1..Len(a) : a[i] = 0 THEN <<>>
            ELSE SubSeq(a, 1, Max({i \in 1..Len(a) : a[i] # 0}))

NCmpAt(a, b, i) == IF a[i] < b[i] THEN -1 ELSE 1
\* -1, 0 or 1 as a < b, a = b, a > b
NCmp(a, b) == IF Len(a) < Len(b) THEN -1
              ELSE IF Len(a) > Len(b) THEN 1
              ELSE IF a = b THEN 0
              ELSE NCmpAt(a, b, Max({i \in 1..Len(a) : a[i] # b[i]}))
NLe(a, b) == NCmp(a, b) <= 0
NLt(a, b) == NCmp(a, b) < 0

\* s holds the limb sums a[i] + b[i]: the carry into limb i
NCarry(s, i) == \E j \in 1..(i-1) : /\ s[j] >= BASE
                                    /\ \A k \in (j+1)..(i-1) : s[k] = BASE - 1
NAddS(s) ==
    [i \in 1..Len(s) |-> (s[i] + IF NCarry(s, i) THEN 1 ELSE 0) % BASE]
    \o (IF NCarry(s, Len(s) + 1) THEN <<1>> ELSE <<>>)
NAddN(a, b, n) == NAddS([i \in 1..n |-> NLimb(a, i) + NLimb(b, i)])
NAdd(a, b) == IF a = <<>> THEN b
              ELSE IF b = <<>> THEN a
              ELSE NAddN(a, b, IF Len(a) < Len(b) THEN Len(b) ELSE Len(a))

\* the borrow into limb i of a - b
NBorrow(a, b, i) == \E j \in 1..(i-1) : /\ a[j] < NLimb(b, j)
                                        /\ \A k \in (j+1)..(i-1) : a[k] = NLimb(b, k)
\* a - b, for a >= b
NSub(a, b) ==
    IF b = <<>> THEN a
    ELSE
    NTrim([i \in 1..Len(a) |->
              (a[i] - NLimb(b, i) - (IF NBorrow(a, b, i) THEN 1 ELSE 0) + BASE) % BASE])

\* a * BASE^k
NShift(a, k) == IF a = <<>> THEN <<>> ELSE [i \in 1..k |-> 0] \o a
\* floor(a / BASE^k)
NDrop(a, k) == IF Len(a) <= k THEN <<>> ELSE SubSeq(a, k + 1, Len(a))

\* the number whose limbs-with-excess are t (each t[i] < BASE^2)
NCarried(t) == NAdd(NTrim([i \in 1..Len(t) |-> t[i] % BASE]),
                    NShift(NTrim([i \in 1..Len(t) |-> t[i] \div BASE]), 1))
\* a * d, for a machine-sized 0 <= d <= BASE
NMulSmall(a, d) == IF a = <<>> \/ d = 0 THEN <<>>
                   ELSE NCarried([i \in 1..Len(a) |-> a[i] * d])

\* the sums of the low and of the high halves of the products a[i] * b[k+1-i]
RECURSIVE ColLo(_, _, _, _, _)
ColLo(a, b, k, lo, hi) ==
    IF lo > hi THEN 0
    ELSE IF lo = hi THEN (a[lo] * b[k + 1 - lo]) % BASE
    ELSE ColLo(a, b, k, lo, (lo + hi) \div 2) + ColLo(a, b, k, (lo + hi) \div 2 + 1, hi)
RECURSIVE ColHi(_, _, _, _, _)
ColHi(a, b, k, lo, hi) ==
    IF lo > hi THEN 0
    ELSE IF lo = hi THEN (a[lo] * b[k + 1 - lo]) \div BASE
    ELSE ColHi(a, b, k, lo, (lo + hi) \div 2) + ColHi(a, b, k, (lo + hi) \div 2 + 1, hi)
ColFirst(b, k) == IF k + 1 - Len(b) > 1 THEN k + 1 - Len(b) ELSE 1
ColLast(a, k) == IF k < Len(a) THEN k ELSE Len(a)
NMul(a, b) ==
    IF a = <<>> \/ b = <<>> THEN <<>>
    ELSE NCarried([k \in 1..(Len(a) + Len(b)) |->
                     ColLo(a, b, k, ColFirst(b, k), ColLast(a, k))
                     + ColHi(a, b, k - 1, ColFirst(b, k - 1), ColLast(a, k - 1))])

\* long division (Knuth's algorithm D) of an by bn, whose top limb is at least
\* BASE/2: s is the running remainder with the next limb brought down, s < bn*BASE
NDivEstimate(s, bn) ==
    IF (NLimb(s, Len(bn) + 1) * BASE + NLimb(s, Len(bn))) \div bn[Len(bn)] > BASE - 1
    THEN BASE - 1
    ELSE (NLimb(s, Len(bn) + 1) * BASE + NLimb(s, Len(bn))) \div bn[Len(bn)]
\* the digit: the estimate is at most 2 too large
NDivDigit(s, bn, qhat) ==
    IF NLe(NMulSmall(bn, qhat), s) THEN qhat
    ELSE IF NLe(NMulSmall(bn, qhat - 1), s) THEN qhat - 1
    ELSE qhat - 2
NDivDigitOf(s, bn) == NDivDigit(s, bn, NDivEstimate(s, bn))
\* r is the remainder so far, acc the digits so far, i the next limb of an
RECURSIVE NDivLoop(_, _, _, _, _)
NDivLoop(an, bn, i, r, acc) ==
    IF i = 0 \/ Len(r) < 0 \/ Len(acc) < 0 THEN NTrim(acc)
    ELSE LET s == NTrim(<<an[i]>> \o r)
             d == NDivDigitOf(s, bn)
         IN  NDivLoop(an, bn, i - 1, NSub(s, NMulSmall(bn, d)), <<d>> \o acc)
NDivNorm(an, bn) ==
    IF Len(an) < 0 \/ Len(bn) < 0 THEN <<>>
    ELSE NDivLoop(an, bn, Len(an) - Len(bn) + 1,
                  NTrim(SubSeq(an, Len(an) - Len(bn) + 2, Len(an))), <<>>)
NDivQR(a, b, q) == IF Len(q) < 0 THEN q
                   ELSE [q |-> q, r |-> NSub(a, NMul(q, b))]
\* quotient and remainder (both naturals) of a by b # 0
NDivMod(a, b) ==
    IF NLt(a, b) THEN [q |-> <<>>, r |-> a]
    ELSE NDivQR(a, b, NDivNorm(NMulSmall(a, BASE \div (b[Len(b)] + 1)),
                               NMulSmall(b, BASE \div (b[Len(b)] + 1))))

(***************************************************************************)
(* Python integers: a sign and a magnitude; zero is not negative.          *)
(***************************************************************************)
IMake(neg, mag) == IF mag = <<>> THEN [neg |-> FALSE, mag |-> <<>>]
                   ELSE [neg |-> neg, mag |-> mag]
INat(mag) == IMake(FALSE, mag)
IZero == INat(<<>>)
IOne == INat(<<1>>)
INeg(a) == IMake(~a.neg, a.mag)
IIsZero(a) == a.mag = <<>>

ICmp(a, b) == IF a.neg /\ ~b.neg THEN -1
              ELSE IF ~a.neg /\ b.neg THEN 1
              ELSE IF a.neg THEN NCmp(b.mag, a.mag)
              ELSE NCmp(a.mag, b.mag)
ILt(a, b) == ICmp(a, b) < 0
ILe(a, b) == ICmp(a, b) <= 0
IGt(a, b) == ICmp(a, b) > 0
IGe(a, b) == ICmp(a, b) >= 0

IAdd(a, b) == IF a.neg = b.neg THEN IMake(a.neg, NAdd(a.mag, b.mag))
              ELSE IF NLe(b.mag, a.mag) THEN IMake(a.neg, NSub(a.mag, b.mag))
              ELSE IMake(b.neg, NSub(b.mag, a.mag))
ISub(a, b) == IAdd(a, INeg(b))
IMul(a, b) == IMake(a.neg # b.neg, NMul(a.mag, b.mag))

\* Python's a // b on integers (the floor of the quotient), for b # 0
IFloorNeg(d) == IF d.r = <<>> THEN IMake(TRUE, d.q)
                ELSE IMake(TRUE, NAdd(d.q, <<1>>))
IFloorDiv(a, b) == IF a.neg = b.neg THEN IMake(FALSE, NDivMod(a.mag, b.mag).q)
                   ELSE IFloorNeg(NDivMod(a.mag, b.mag))

IMin(a, b) == IF ILt(b, a) THEN b ELSE a

\* 10**k as a Python integer
TenTo(k) == INat(NShift(<<10^(k % 4)>>, k \div 4))

(***************************************************************************)
(* IEEE-754 doubles (Python float, numpy float64): man * 2^bexp with       *)
(* 2^52 <= man < 2^53, or zero.  Every operation rounds its exact result   *)
(* to the nearest double, ties to even.  The values of this program stay   *)
(* far inside the normal range (below 10^60, and above 10^-19 when not     *)
(* zero), so overflow, subnormals, infinities and NaN do not arise.        *)
(***************************************************************************)
RECURSIVE NPow2(_)
NPow2(k) == IF k >= 13 THEN NMulSmall(NPow2(k - 13), 2^13)
            ELSE <<2^k>>
TwoTo52 == NPow2(52)
TwoTo53 == NPow2(53)

\* the number of bits of a natural, to within one
NBitsEst(n) ==
    IF n = <<>> THEN 0
    ELSE ((Len(n) - 1) * 13288) \div 1000
         + (CHOOSE k \in 1..14 : 2^(k-1) <= n[Len(n)] /\ n[Len(n)] < 2^k)

FZero == [neg |-> FALSE, man |-> <<>>, bexp |-> 0]
IsFloat(v) == "bexp" \in DOMAIN v

\* the rounding of quotient d.q with remainder d.r of a division by den
RNRound(neg, d, den, e, c) ==
    IF c > 0 \/ (c = 0 /\ d.q[1] % 2 = 1)
    THEN (IF NAdd(d.q, <<1>>) = TwoTo53
          THEN [neg |-> neg, man |-> TwoTo52, bexp |-> e + 1]
          ELSE [neg |-> neg, man |-> NAdd(d.q, <<1>>), bexp |-> e])
    ELSE [neg |-> neg, man |-> d.q, bexp |-> e]

\* p/q rounded with the mantissa taken at exponent e (e is corrected until
\* the mantissa has 53 bits)
RECURSIVE RNAt(_, _, _, _)
RNQuot(neg, p, q, e, den, d) ==
    IF NLt(d.q, TwoTo52) THEN RNAt(neg, p, q, e - 1)
    ELSE IF ~NLt(d.q, TwoTo53) THEN RNAt(neg, p, q, e + 1)
    ELSE RNRound(neg, d, den, e, NCmp(NMulSmall(d.r, 2), den))
RNScaled(neg, p, q, e, num, den) ==
    IF Len(num) < 0 \/ Len(den) < 0 THEN FZero
    ELSE RNQuot(neg, p, q, e, den, NDivMod(num, den))
RNAt(neg, p, q, e) ==
    IF e < 0 THEN RNScaled(neg, p, q, e, NMul(p, NPow2(-e)), q)
    ELSE RNScaled(neg, p, q, e, p, NMul(q, NPow2(e)))
\* the double nearest to (-1)^neg * p/q, for naturals p and q # 0
RN(neg, p, q) == IF p = <<>> THEN FZero
                 ELSE RNAt(neg, p, q, NBitsEst(p) - NBitsEst(q) - 53)

\* a number (integer or double) as the exact fraction Num/Den with its sign
Num(v) == IF ~IsFloat(v) THEN v.mag
          ELSE IF v.bexp > 0 THEN NMul(v.man, NPow2(v.bexp)) ELSE v.man
Den(v) == IF IsFloat(v) /\ v.bexp < 0 THEN NPow2(-v.bexp) ELSE <<1>>

\* float(i): the conversion of an integer in mixed arithmetic
ToFloat(v) == IF IsFloat(v) THEN v ELSE RN(v.neg, v.mag, <<1>>)

FMul(x, y) == RN(x.neg # y.neg, NMul(Num(x), Num(y)), NMul(Den(x), Den(y)))
FDiv(x, y) == RN(x.neg # y.neg, NMul(Num(x), Den(y)), NMul(Den(x), Num(y)))

\* x // y on doubles x >= 0 and y > 0, as CPython's float_divmod and numpy's
\* npy_divmod compute it: mod = fmod(x, y) is exact, div = (x - mod) / y is
\* rounded twice, and the result is floor(div), plus one if div - floor(div) > 0.5.
\* fm is Num(div) divided by dd = Den(div); whole is x - mod, and k = whole / y
FFloorRound(fm, dd) ==
    RN(FALSE, IF NLt(dd, NMulSmall(fm.r, 2)) THEN NAdd(fm.q, <<1>>) ELSE fm.q, <<1>>)
FFloorOf(dn, dd) == IF Len(dn) < 0 \/ Len(dd) < 0 THEN FZero
                    ELSE FFloorRound(NDivMod(dn, dd), dd)
FFloorDivQ(div) == IF div.neg THEN FZero ELSE FFloorOf(Num(div), Den(div))
FFloorLess(whole, y) == IF whole.neg THEN FZero ELSE FFloorDivQ(FDiv(whole, y))
FFloorWhole(y, k) == IF Len(k) < 0 THEN FZero
                     ELSE FFloorLess(RN(FALSE, NMul(k, Num(y)), Den(y)), y)
FFloorDiv(x, y) ==
    IF x.neg \/ y.neg THEN FZero
    ELSE FFloorWhole(y, NDivMod(NMul(Num(x), Den(y)), NMul(Num(y), Den(x))).q)

\* the comparison of two numbers, exact also between an integer and a double
PyCmp(a, b) ==
    IF a.neg /\ ~b.neg THEN -1
    ELSE IF ~a.neg /\ b.neg THEN 1
    ELSE LET c == NCmp(NMul(Num(a), Den(b)), NMul(Num(b), Den(a)))
         IN IF a.neg THEN -c ELSE c
PyLt(a, b) == PyCmp(a, b) < 0
PyLe(a, b) == PyCmp(a, b) <= 0
PyEq(a, b) == PyCmp(a, b) = 0
\* Python's min(a, b): b if b < a, else a
PyMin(a, b) == IF PyLt(b, a) THEN b ELSE a
\* a * b and a // b: integer arithmetic on two integers, else double arithmetic
PyMul(a, b) == IF IsFloat(a) \/ IsFloat(b) THEN FMul(ToFloat(a), ToFloat(b))
               ELSE IMul(a, b)
PyFloorDiv(a, b) == IF IsFloat(a) \/ IsFloat(b) THEN FFloorDiv(ToFloat(a), ToFloat(b))
                    ELSE IFloorDiv(a, b)

(***************************************************************************)
(* The library exponential np.exp on doubles.   It is taken to return the   *)
(* double nearest to e^x.  e^|x| is computed as a fixed-point number with  *)
(* EXP_LIMBS limbs (40 decimal places) after the point: the Taylor series  *)
(* of e^(|x|/2^EXP_HALVINGS), squared EXP_HALVINGS times.                   *)
(***************************************************************************)
\* the precision: the number of limbs after the point, and the number of halvings
EXP_LIMBS == 10
EXP_HALVINGS == 12
ExpOne == NShift(<<1>>, EXP_LIMBS)
\* sum + term + term*y/k + term*y^2/(k(k+1)) + ..., until the terms vanish
RECURSIVE ExpSeries(_, _, _, _)
ExpSeries(y, term, k, sum) ==
    IF term = <<>> \/ Len(sum) < 0 THEN sum
    ELSE ExpSeries(y, NDivMod(NDrop(NMul(term, y), EXP_LIMBS), <<k>>).q, k + 1,
                   NAdd(sum, term))
ExpSquared(r) == NDrop(NMul(r, r), EXP_LIMBS)
RECURSIVE ExpSquare(_, _)
ExpSquare(r, n) == IF n = 0 \/ Len(r) < 0 THEN r
                   ELSE ExpSquare(ExpSquared(r), n - 1)
\* |x| / 2^EXP_HALVINGS in units of BASE^-EXP_LIMBS
ExpArg(x) == NDivMod(NDivMod(NShift(Num(x), EXP_LIMBS), Den(x)).q,
                     NPow2(EXP_HALVINGS)).q
ExpOfArg(y) == IF Len(y) < 0 THEN y
               ELSE ExpSquare(ExpSeries(y, ExpOne, 1, <<>>), EXP_HALVINGS)
\* e^|x| in units of BASE^-EXP_LIMBS, for a double x
ExpFixed(x) == ExpOfArg(ExpArg(x))
FExpRound(x, r) == IF Len(r) < 0 THEN FZero
                   ELSE IF x.neg THEN RN(FALSE, ExpOne, r)
                   ELSE RN(FALSE, r, ExpOne)
FExp(x) == FExpRound(x, ExpFixed(x))

(***************************************************************************)
(* AggMonetaryPolicy3: the constants of __init__, exp and calculate_rate.  *)
(***************************************************************************)
NoValue == "none"
\* Python evaluates a statement's value v before it goes on to the next, w
After(v, w) == IF "neg" \in DOMAIN v THEN w ELSE NoValue

E18 == TenTo(18)
MAX_RATE == INat(Dec(<<439, 5910, 6799>>))          \* 43959106799
MAX_EXP == IMul(INat(<<1000>>), E18)                 \* 1000 * 10**18
MIN_SIGMA == TenTo(14)
MAX_SIGMA == TenTo(18)
TARGET_REMAINDER == TenTo(17)
MAX_TARGET_DEBT_FRACTION == TenTo(18)
\* the two thresholds of exp: -41446531673892821376 and 135305999368893231589
EXP_LOW == IMake(TRUE, Dec(<<4144, 6531, 6738, 9282, 1376>>))
EXP_HIGH == INat(Dec(<<1, 3530, 5999, 3688, 9323, 1589>>))
\* the float literal 1e18
FloatE18 == ToFloat(E18)

\* line 37, from the inside out: power / 1e18, np.exp, * 1e18, min
ExpCapped(product) == After(product, PyMin(product, MAX_EXP))
ExpScaled(e) == After(e, ExpCapped(FMul(e, FloatE18)))
ExpOfQuotient(x) == After(x, ExpScaled(FExp(x)))
ExpOfFloat(p) == After(p, ExpOfQuotient(FDiv(p, FloatE18)))
\* lines 33 and 35 with < for <= and > for >=
ExpThresholdsExcluded(power) ==
    IF ILt(power, EXP_LOW) THEN IZero
    ELSE IF IGt(power, EXP_HIGH) THEN MAX_EXP
    ELSE ExpOfFloat(ToFloat(power))
\* exp(power): 0 or MAX_EXP (integers) at the two ends, else a double
exp(power) ==
    IF ILe(power, EXP_LOW) THEN IZero
    ELSE IF IGe(power, EXP_HIGH) THEN MAX_EXP
    ELSE ExpOfFloat(ToFloat(power))

SkewApplies(a) == IGt(a.pk_debt, IZero) /\ IGt(a.total_debt, IZero)
CeilingApplies(a) == IGt(a.ceiling, IZero) /\ IGt(a.debt_for, IZero)

\* line 53 with the two sides of the peg swapped
PegPowerAbovePeg(a) == IFloorDiv(IMul(ISub(a.price, E18), E18), a.sigma)
\* line 53 and the debt-skew term of line 56
PegPower(a) == IFloorDiv(IMul(ISub(E18, a.price), E18), a.sigma)
SkewTerm(a) ==
    IFloorDiv(IMul(IFloorDiv(IMul(a.pk_debt, E18), a.total_debt), E18),
              a.target_debt_fraction)
\* line 56 with += for -=
PowerSkewAdded(a) ==
    IF SkewApplies(a) THEN IAdd(PegPower(a), SkewTerm(a)) ELSE PegPower(a)
Power(a) == IF SkewApplies(a) THEN ISub(PegPower(a), SkewTerm(a)) ELSE PegPower(a)
\* product // 10**18
FloorDivE18(product) == After(product, PyFloorDiv(product, E18))
\* line 58 without the exponential
BaseRateWithoutExp(rate0, e) == FloorDivE18(PyMul(rate0, E18))
\* line 58
BaseRate(rate0, e) == FloorDivE18(PyMul(rate0, PyMin(e, MAX_EXP)))
\* line 62 with the cap at 10^18 - 10^11
F_CAP_AT_E11 == ISub(E18, TenTo(11))
\* line 62
F_CAP == ISub(E18, IFloorDiv(TARGET_REMAINDER, INat(<<1000>>)))
Utilization(a) == IMin(IFloorDiv(IMul(a.debt_for, E18), a.ceiling), F_CAP)
\* lines 64-65 with 10**18 + f for 10**18 - f
CeilingFactorAdded(f) ==
    IAdd(ISub(E18, TARGET_REMAINDER),
         IFloorDiv(IMul(TARGET_REMAINDER, E18), IAdd(E18, f)))
\* lines 64-65: the factor the rate is multiplied by
CeilingFactor(f) ==
    IAdd(ISub(E18, TARGET_REMAINDER),
         IFloorDiv(IMul(TARGET_REMAINDER, E18), ISub(E18, f)))
ScaledRate(rate, factor) == FloorDivE18(PyMul(rate, factor))
\* lines 63-67
CeilingRate(scaled) == PyMin(scaled, MAX_RATE)

\* the outcome of a call: a returned rate with the locals that led to it, or
\* the exception the call ended with
Outcome(status, line) ==
    [status |-> status, line |-> line, power |-> NoValue, e |-> NoValue,
     base |-> NoValue, adjusted |-> FALSE, f |-> NoValue, factor |-> NoValue,
     scaled |-> NoValue, rate |-> NoValue]
Raised(exception, line) == Outcome(exception, line)
Returned(power, e, base, adjusted, f, factor, scaled, rate) ==
    [status |-> "returned", line |-> 69, power |-> power, e |-> e, base |-> base,
     adjusted |-> adjusted, f |-> f, factor |-> factor, scaled |-> scaled,
     rate |-> rate]

RateCapped(power, e, base, f, factor, scaled, rate) ==
    After(rate, Returned(power, e, base, TRUE, f, factor, scaled, rate))
RateScaled(power, e, base, f, factor, scaled) ==
    After(scaled, RateCapped(power, e, base, f, factor, scaled, CeilingRate(scaled)))
RateAdjusted(power, e, base, f, factor) ==
    RateScaled(power, e, base, f, factor, ScaledRate(base, factor))
RateWithF(power, e, base, f) ==
    IF IIsZero(ISub(E18, f)) THEN Raised("ZeroDivisionError", 65)
    ELSE RateAdjusted(power, e, base, f, CeilingFactor(f))
RateFromBase(a, power, e, base) ==
    IF CeilingApplies(a) THEN After(base, RateWithF(power, e, base, Utilization(a)))
    ELSE After(base, Returned(power, e, base, FALSE, NoValue, NoValue, NoValue, base))
RateFromExp(a, power, e) == After(e, RateFromBase(a, power, e, BaseRate(a.rate0, e)))
RateFromPower(a, power) == After(power, RateFromExp(a, power, exp(power)))
\* calculate_rate(**a)
calculate_rate(a) ==
    IF IIsZero(a.sigma) THEN Raised("ZeroDivisionError", 53)
    ELSE IF SkewApplies(a) /\ IIsZero(a.target_debt_fraction)
         THEN Raised("ZeroDivisionError", 56)
    ELSE RateFromPower(a, Power(a))

(***************************************************************************)
(* The arguments the engine is called with.  A run of the script of        *)
(* main.py builds the dictionary params, calls calculate_rate once for     *)
(* every price of the price grid and once for every debt of the            *)
(* utilization grid, each time on a copy of params with that one entry     *)
(* replaced, and then once more for the rate calculator.  An exception     *)
(* ends the run.  The values are samples: the sidebar's defaults, the      *)
(* ends of the sliders' ranges, the scenarios of the specification, and    *)
(* arguments only a direct caller of the class can pass.                   *)
(***************************************************************************)
\* m * 10**k
Wei(m, k) == IMul(INat(<<m>>), TenTo(k))

Args(price, sigma, rate0, target_debt_fraction, debt_for, total_debt, pk_debt, ceiling) ==
    [price |-> price, sigma |-> sigma, rate0 |-> rate0,
     target_debt_fraction |-> target_debt_fraction, debt_for |-> debt_for,
     total_debt |-> total_debt, pk_debt |-> pk_debt, ceiling |-> ceiling]

\* to_wei((1 + b/100) ** (1/365/24/60/60) - 1) for a base rate of b = 10 and b = 4
RATE_10 == INat(Dec(<<30, 2226, 5993>>))
RATE_4 == INat(Dec(<<12, 4368, 713>>))

\* the sidebar's defaults: price 1.0, sigma 0.02, base rate 10%, target debt
\* fraction 50%, debt fraction 10%, utilization 50%
Defaults == Args(E18, Wei(2, 16), RATE_10, Wei(5, 17), Wei(5, 17), E18, Wei(1, 17), E18)
\* a direct call that leaves price, sigma, the debts and the ceiling at the
\* defaults of kwargs.get: at peg, with no debt and no ceiling
ScenarioA == Args(E18, Wei(2, 16), RATE_10, Wei(5, 17), IZero, IZero, IZero, IZero)
\* the peg keepers' debt is the whole debt
ScenarioD == [Defaults EXCEPT !.pk_debt = E18]

N_INPUTS == 18
Input(i) ==
    CASE i = 1 -> ScenarioA
      [] i = 2 -> Defaults
      [] i = 3 -> ScenarioD
      [] i = 4 -> [ScenarioA EXCEPT !.rate0 = RATE_4]
      [] i = 5 -> [ScenarioA EXCEPT !.sigma = MAX_SIGMA]
      [] i = 6 -> [ScenarioA EXCEPT !.sigma = MIN_SIGMA]
      [] i = 7 -> [ScenarioA EXCEPT !.rate0 = MAX_RATE]
      [] i = 8 -> [ScenarioA EXCEPT !.rate0 = IZero]
      [] i = 9 -> [Defaults EXCEPT !.price = Wei(95, 16)]
      [] i = 10 -> [Defaults EXCEPT !.target_debt_fraction = IZero]
      [] i = 11 -> [ScenarioA EXCEPT !.sigma = IZero]
      [] i = 12 -> [ScenarioA EXCEPT !.sigma = INeg(Wei(2, 16))]
      [] i = 13 -> [Defaults EXCEPT !.rate0 = MAX_RATE]
      [] i = 14 -> [ScenarioD EXCEPT !.target_debt_fraction = Wei(1, 17)]
      [] i = 15 -> [Defaults EXCEPT !.sigma = MAX_SIGMA]
      [] i = 16 -> [ScenarioD EXCEPT !.rate0 = IZero]
      [] i = 17 -> [Defaults EXCEPT !.sigma = MIN_SIGMA, !.pk_debt = IZero]
      [] i = 18 -> [ScenarioD EXCEPT !.target_debt_fraction = MAX_TARGET_DEBT_FRACTION]
      [] i = 19 -> [Defaults EXCEPT !.rate0 = RATE_4, !.pk_debt = IZero]
      [] OTHER -> [ScenarioD EXCEPT !.price = Wei(105, 16)]

\* the price grid, ascending: 0, 0.5, 0.95, 1 - 10^-18, 1, 1.05, 1.5 and 3
N_PRICES == 7
PRICES == <<IZero, Wei(5, 17), Wei(95, 16), ISub(E18, INat(<<1>>)), E18,
            Wei(105, 16), Wei(15, 17), Wei(3, 18)>>
\* the utilization grid, ascending, for a ceiling of 10^18: 0, 10^-18, 50%,
\* 99.99%, 100% and 200%
N_DEBTS == 5
DEBTS == <<IZero, INat(<<1>>), Wei(5, 17), Wei(9999, 14), E18, Wei(2, 18)>>
\* powers for exp: its two thresholds and their neighbours, 0 and its
\* neighbours, 1 and -1, both sides of ln(1000), and far out
N_POWERS == 13
POWERS == <<EXP_LOW, IAdd(EXP_LOW, INat(<<1>>)), ISub(EXP_LOW, INat(<<1>>)),
            EXP_HIGH, ISub(EXP_HIGH, INat(<<1>>)), IAdd(EXP_HIGH, INat(<<1>>)),
            IZero, INat(<<1>>), INeg(INat(<<1>>)), E18, INeg(E18),
            Wei(69, 17), Wei(7, 18), Wei(2, 20), INeg(Wei(5, 21))>>

VARIABLES
    pc,        \* where the run is: "prices", "debts", "calculator", "done",
               \* "raised"; or "exp", "exp done" for a direct call of exp
    params,    \* the dictionary params of the run
    args,      \* the arguments of the latest call of calculate_rate
    out,       \* the outcome of the latest call of calculate_rate
    prev,      \* the arguments and the outcome of the call before it
    step,      \* how many values of the grid the current loop has done
    exp_in,    \* the argument of a direct call of exp
    exp_out    \* what that call returned
vars == <<pc, params, args, out, prev, step, exp_in, exp_out>>

NoCall == Outcome("no call", 0)

InitRun ==
    \E i \in 1..N_INPUTS :
        /\ params = Input(i)
        /\ args = Input(i)
        /\ out = NoCall
        /\ prev = [args |-> Input(i), out |-> NoCall]
        /\ pc = "prices"
        /\ step = 0
        /\ exp_in = NoValue
        /\ exp_out = NoValue
InitExp ==
    \E i \in 1..N_POWERS :
        /\ exp_in = POWERS[i]
        /\ exp_out = NoValue
        /\ pc = "exp"
        /\ params = ScenarioA
        /\ args = ScenarioA
        /\ out = NoCall
        /\ prev = [args |-> ScenarioA, out |-> NoCall]
        /\ step = 0
Init == InitRun \/ InitExp

\* rate = policy.calculate_rate(**current_params): the call, and where the run
\* goes on: to the next value of the loop, to what follows the loop (after),
\* or nowhere if the call raised
Call(current_params, result, loop, n, after) ==
    /\ args' = current_params
    /\ out' = result
    /\ prev' = [args |-> args, out |-> out]
    /\ pc' = IF result.status # "returned" THEN "raised"
             ELSE IF step + 1 < n THEN loop ELSE after
    /\ step' = IF result.status = "returned" /\ step + 1 < n THEN step + 1 ELSE 0
    /\ UNCHANGED <<params, exp_in, exp_out>>
CallWith(current_params, loop, n, after) ==
    Call(current_params, calculate_rate(current_params), loop, n, after)

\* main.py, for p in prices_human
SweepPrice ==
    /\ pc = "prices"
    /\ CallWith([params EXCEPT !.price = PRICES[step + 1]], "prices", N_PRICES, "debts")
\* main.py, for u in utilizations_human
SweepUtil ==
    /\ pc = "debts"
    /\ CallWith([params EXCEPT !.debt_for = DEBTS[step + 1]], "debts", N_DEBTS, "calculator")
\* main.py, the rate calculator, whose two inputs default to the sidebar's
Calculate ==
    /\ pc = "calculator"
    /\ CallWith(params, "done", 1, "done")
\* a direct call policy.exp(power)
ExpCall ==
    /\ pc = "exp"
    /\ exp_out' = exp(exp_in)
    /\ pc' = "exp done"
    /\ UNCHANGED <<params, args, out, prev, step, exp_in>>

Next == SweepPrice \/ SweepUtil \/ Calculate \/ ExpCall
Spec == Init /\ [][Next]_vars

(***************************************************************************)
(* The properties.                                                         *)
(***************************************************************************)
IsReturned(o) == o.status = "returned"
ValidSigma(a) == ILe(MIN_SIGMA, a.sigma) /\ ILe(a.sigma, MAX_SIGMA)
ValidRate0(a) == IGe(a.rate0, IZero) /\ ILe(a.rate0, MAX_RATE)
\* the valid inputs
Valid(a) ==
    /\ IGe(a.price, IZero)
    /\ ValidSigma(a)
    /\ ValidRate0(a)
    /\ IGt(a.target_debt_fraction, IZero)
    /\ ILe(a.target_debt_fraction, MAX_TARGET_DEBT_FRACTION)
    /\ IGe(a.debt_for, IZero)
    /\ IGe(a.total_debt, IZero)
    /\ IGe(a.pk_debt, IZero)
    /\ IGe(a.ceiling, IZero)
InBounds(rate) == PyLe(IZero, rate) /\ PyLe(rate, MAX_RATE)

\* C1: for valid inputs the value calculate_rate returns satisfies
\* 0 <= rate <= MAX_RATE, also when the ceiling adjustment is skipped.
C1_RateWithinBounds ==
    (IsReturned(out) /\ Valid(args)) => InBounds(out.rate)

\* the latest two calls returned, on valid inputs that differ in price alone
PricePair ==
    /\ IsReturned(out) /\ IsReturned(prev.out)
    /\ Valid(args) /\ Valid(prev.args)
    /\ [prev.args EXCEPT !.price = args.price] = args
\* C2: calculate_rate is non-increasing in price: of two calls on valid inputs
\* that differ only in price, the one with the lower price returns at least
\* the rate of the other.
C2_NonIncreasingInPrice ==
    PricePair =>
        /\ ILe(prev.args.price, args.price) => PyLe(out.rate, prev.out.rate)
        /\ ILe(args.price, prev.args.price) => PyLe(prev.out.rate, out.rate)
C2_Witness ==
    PricePair /\ ILt(prev.args.price, args.price) /\ PyLt(out.rate, prev.out.rate)

\* the latest two calls returned, on valid inputs with a ceiling that differ
\* in debt_for alone, both debts positive
DebtPair ==
    /\ IsReturned(out) /\ IsReturned(prev.out)
    /\ Valid(args) /\ Valid(prev.args)
    /\ [prev.args EXCEPT !.debt_for = args.debt_for] = args
    /\ IGt(args.ceiling, IZero)
    /\ IGt(args.debt_for, IZero) /\ IGt(prev.args.debt_for, IZero)
\* C3: calculate_rate is non-decreasing in debt_for: of two calls on valid
\* inputs with ceiling > 0 that differ only in debt_for > 0, the one with the
\* lower debt_for returns at most the rate of the other.
C3_NonDecreasingInDebt ==
    DebtPair =>
        /\ ILe(prev.args.debt_for, args.debt_for) => PyLe(prev.out.rate, out.rate)
        /\ ILe(args.debt_for, prev.args.debt_for) => PyLe(out.rate, prev.out.rate)
C3_Witness ==
    DebtPair /\ ILt(prev.args.debt_for, args.debt_for) /\ PyLt(prev.out.rate, out.rate)

Invalid(a) ==
    \/ ILe(a.sigma, IZero)
    \/ ILe(a.target_debt_fraction, IZero) /\ SkewApplies(a)
\* C4: a call with sigma <= 0, or with target_debt_fraction <= 0 while
\* pk_debt > 0 and total_debt > 0, ends in an InvalidParameter error (it
\* neither returns a rate nor divides by zero); every other call returns a
\* value in [0, MAX_RATE].
C4_InvalidParameter ==
    out.status # "no call" =>
        IF Invalid(args) THEN out.status = "InvalidParameter"
        ELSE IsReturned(out) /\ InBounds(out.rate)

AtPeg(a) ==
    /\ a.price = E18
    /\ ValidSigma(a) /\ ValidRate0(a)
    /\ a.pk_debt = IZero /\ a.total_debt = IZero
    /\ a.debt_for = IZero /\ a.ceiling = IZero
\* C5: at peg with no debt and no ceiling (price = 1e18, valid sigma and rate0,
\* pk_debt = total_debt = debt_for = ceiling = 0) the power is 0, exp(0) is
\* 1e18 and calculate_rate returns rate0 exactly.
C5_PegReturnsRate0 ==
    (IsReturned(out) /\ AtPeg(args)) =>
        /\ out.power = IZero
        /\ PyEq(out.e, E18)
        /\ PyEq(out.rate, args.rate0)

\* a call returned, on valid inputs with pk_debt = total_debt > 0 and
\* target_debt_fraction < 1e18
SkewCase ==
    /\ IsReturned(out) /\ Valid(args)
    /\ args.pk_debt = args.total_debt
    /\ IGt(args.pk_debt, IZero)
    /\ ILt(args.target_debt_fraction, E18)
\* the otherwise-identical call with pk_debt = 0
WithoutSkew == calculate_rate([args EXCEPT !.pk_debt = IZero])
StrictlyLowers(r) == ILt(out.power, r.power) /\ PyLt(out.rate, r.rate)
Lowers(r) ==
    /\ ILt(out.power, r.power)
    /\ PyLe(out.rate, r.rate)
    /\ (PyLt(r.e, MAX_EXP) /\ PyLe(IOne, r.rate) /\ PyLt(r.rate, MAX_RATE))
           => PyLt(out.rate, r.rate)
\* C6 as stated: with pk_debt = total_debt > 0 and 0 < target_debt_fraction <
\* 1e18, the power is lower than in the otherwise-identical call with
\* pk_debt = 0, and the returned rate is strictly lower than that call's.
C6_SkewStrictlyLowers == SkewCase => StrictlyLowers(WithoutSkew)
\* C6, amended: with pk_debt = total_debt > 0 and 0 < target_debt_fraction <
\* 1e18, the power is strictly lower than in the otherwise-identical call with
\* pk_debt = 0 and the returned rate is never higher than that call's; it is
\* strictly lower when that call's exp is below MAX_EXP and its rate is at
\* least 1 and below MAX_RATE.
C6_SkewLowers == SkewCase => Lowers(WithoutSkew)
C6_Witness ==
    SkewCase /\ PyLt(out.e, MAX_EXP) /\ PyLt(out.rate, MAX_RATE)
             /\ StrictlyLowers(WithoutSkew)

\* a call returned, on a price below peg with valid sigma, rate0 > 0 and
\* pk_debt = total_debt = debt_for = ceiling = 0
BelowPegCase ==
    /\ IsReturned(out)
    /\ IGe(args.price, IZero) /\ ILt(args.price, E18)
    /\ ValidSigma(args) /\ ValidRate0(args) /\ IGt(args.rate0, IZero)
    /\ args.pk_debt = IZero /\ args.total_debt = IZero
    /\ args.debt_for = IZero /\ args.ceiling = IZero
\* C7 as stated: every price strictly below 1e18 (other inputs as in Scenario
\* A, rate0 > 0) gives a strictly positive power and a returned rate strictly
\* greater than rate0.
C7_BelowPegRaisesRate ==
    BelowPegCase => IGt(out.power, IZero) /\ PyLt(args.rate0, out.rate)
\* C7, amended: every price strictly below 1e18 (other inputs as in Scenario
\* A, rate0 > 0) gives a strictly positive power and a returned rate of at
\* least rate0 - 1; the rate is strictly greater than rate0 when the power is
\* at least 1e18 (Scenario B: 2.5e18).
C7_BelowPegKeepsRate ==
    BelowPegCase =>
        /\ IGt(out.power, IZero)
        /\ PyLe(ISub(args.rate0, IOne), out.rate)
        /\ IGe(out.power, E18) => PyLt(args.rate0, out.rate)
C7_Witness ==
    BelowPegCase /\ IGe(out.power, E18) /\ PyLt(args.rate0, out.rate)

ExpSaturates(power, e) ==
    /\ ILe(power, EXP_LOW) => e = IZero
    /\ IGe(power, EXP_HIGH) => e = MAX_EXP
    /\ (IGt(power, EXP_LOW) /\ ILt(power, EXP_HIGH))
           => PyLe(IZero, e) /\ PyLe(e, MAX_EXP)
\* C8: exp(power) is 0 for every power <= -41446531673892821376, MAX_EXP for
\* every power >= 135305999368893231589, and within [0, MAX_EXP] in between;
\* for direct calls of exp and for the calls calculate_rate makes.
C8_ExpSaturates ==
    /\ pc = "exp done" => ExpSaturates(exp_in, exp_out)
    /\ IsReturned(out) => ExpSaturates(out.power, out.e)
C8_Witness == pc = "exp done" /\ exp_in = EXP_LOW /\ exp_out = IZero

\* a call returned, on valid inputs with debt_for = ceiling > 0
FullUtilization ==
    /\ IsReturned(out) /\ Valid(args)
    /\ IGt(args.ceiling, IZero)
    /\ args.debt_for = args.ceiling
\* the returned rate is min(scaled_rate, MAX_RATE), scaled_rate being line 65
\* for the utilization fraction f
CappedAt(f) ==
    PyEq(out.rate, PyMin(PyFloorDiv(PyMul(out.base, CeilingFactor(f)), E18), MAX_RATE))
\* C9 as stated: at debt_for = ceiling > 0 the utilization fraction f is
\* 10^18 - 10^11 and the returned rate is min(scaled_rate, MAX_RATE).
C9_ClampAtE11 ==
    FullUtilization => out.f = ISub(E18, TenTo(11)) /\ CappedAt(ISub(E18, TenTo(11)))
\* C9, amended: at debt_for = ceiling > 0 the utilization fraction f is
\* 10^18 - 10^14 (TARGET_REMAINDER // 1000 is 10^14), the multiplier is
\* 1000.9 * 10^18, and the returned rate is min(scaled_rate, MAX_RATE).
C9_ClampAtE14 ==
    FullUtilization =>
        /\ out.f = ISub(E18, TenTo(14))
        /\ out.factor = IAdd(Wei(9, 17), Wei(1, 21))
        /\ CappedAt(ISub(E18, TenTo(14)))
C9_Witness ==
    FullUtilization /\ out.f = ISub(E18, TenTo(14)) /\ PyLt(MAX_RATE, out.scaled)
                    /\ out.rate = MAX_RATE

\* a call returned, on valid inputs with ceiling > 0 and debt_for > 0
CeilingCase ==
    /\ IsReturned(out) /\ Valid(args)
    /\ IGt(args.ceiling, IZero) /\ IGt(args.debt_for, IZero)
\* the otherwise-identical call with debt_for = 0
WithoutDebt == calculate_rate([args EXCEPT !.debt_for = IZero])
NotBelow(r) == PyLe(PyMin(r.rate, MAX_RATE), out.rate)
\* C10: with ceiling > 0 and debt_for > 0 the divisor 1e18 - f is at least
\* 1e14, the multiplier is at least 1e18, and the returned rate is at least
\* min(r, MAX_RATE), r being the rate of the otherwise-identical call with
\* debt_for = 0.
C10_CeilingNeverLowers ==
    CeilingCase =>
        /\ IGe(ISub(E18, out.f), TenTo(14))
        /\ IGe(out.factor, E18)
        /\ NotBelow(WithoutDebt)

====
